---- MODULE Spec2Model ----
(***************************************************************************)
(* Retail intelligence dashboard: the cached query executors of the three  *)
(* filter views, the render pass of the sales view and of the competitor-  *)
(* pricing section, and the turn orchestration of the chat view.           *)
(*                                                                         *)
(* The specifications of the module:                                      *)
(*   SpecCache     calls to the cached executors, with wall-clock time     *)
(*   SpecSessions  the same calls made by two sessions of the process      *)
(*   SpecExec      one executor call, driver call by driver call           *)
(*   SpecConn      the imports of dashboard.py and the connections         *)
(*   SpecChat      script runs of cortext_analyst() in one session         *)
(*   SpecViews     script runs of the sales view and the benchmarking view *)
(*   SpecProduct   script runs of the product view                         *)
(*   SpecFilter    the filtered sales query, row by row at the warehouse   *)
(*   SpecRecover   executor calls while the warehouse is down, and after   *)
(***************************************************************************)
EXTENDS Integers, Sequences, FiniteSets, TLC

VARIABLES
    \* ---- cached executors (st.cache_data) ----
    cache,      \* fingerprint -> [result, created]; the domain grows on store
    now,        \* wall clock, seconds
    ticks,      \* number of clock advances so far
    calls,      \* number of executor calls so far
    last,       \* the latest executor call
    prev,       \* the call before it
    \* ---- chat view (cortext_analyst) ----
    messages,   \* st.session_state.messages
    hasState,   \* "messages" in st.session_state
    conn,       \* "CONN" in st.session_state
    pc,         \* position of the script run
    event,      \* the widget event that started the script run
    widgets,    \* widgets instantiated so far by the latest script run
    rpos,       \* <<turn, block>> the history loop is at
    rendered,   \* blocks rendered by the history loop of this script run
    outstanding,\* agent calls issued and not yet answered
    resp,       \* the answer of the latest agent call
    passWh,     \* warehouse statements issued in this script run
    passAgent,  \* agent calls issued in this script run
    afterClear, \* this script run is the rerun of a Clear Chat click
    base,       \* transcript (and prompt) before the latest submission or Clear
    aborted,    \* a sql block raised in a render pass since the latest Clear
    \* ---- filter views ----
    view,       \* the page the menu selects
    vpc,        \* position of the script run of that page
    runs,       \* number of script runs so far
    sel,        \* the FilterSelection of this script run
    issued,     \* call sites whose query reached the warehouse in this run
    asked,      \* competitor-pricing queries this script run passed to run_query
    shown,      \* messages rendered by this script run
    lookups,    \* what the lookup queries of this script run returned
    wh,         \* the warehouse answers ("up") or every statement raises
    flips,      \* number of changes of wh so far
    tables,     \* the tables hold rows ("filled") or none ("empty")
    \* ---- one executor call, statement by statement ----
    exec,       \* the executor call in progress, or the latest one
    \* ---- connections (dashboard.py and the four init_connection) ----
    resource,   \* module -> the connection st.cache_resource holds for its
                \* init_connection, 0 when it holds none
    modconn,    \* module -> its global `conn`, 0 while it is not imported
    sessconn,   \* session -> st.session_state.CONN, 0 when not set
    made,       \* connections constructed so far; they are numbered 1..made
    scripts,    \* script runs of dashboard.py so far
    run,        \* the script run of dashboard.py in progress, or the latest
    \* ---- product view ----
    prod,       \* the script run of the product view in progress, or the latest
    \* ---- the sales query at the warehouse ----
    fq          \* the filtered sales query in progress, or the latest

cacheVars == <<cache, now, ticks, calls, last, prev>>
chatVars  == <<messages, hasState, conn, pc, event, widgets, rpos, rendered,
               outstanding, resp, passWh, passAgent, afterClear, base,
               aborted>>
viewVars  == <<view, vpc, runs, sel, issued, asked, shown, lookups, wh, flips,
               tables>>
execVars  == <<exec>>
connVars  == <<resource, modconn, sessconn, made, scripts, run>>
prodVars  == <<prod>>
fqVars    == <<fq>>
vars      == <<cacheVars, chatVars, viewVars, execVars, connVars, prodVars,
               fqVars>>

(***************************************************************************)
(* Bounds                                                                  *)
(***************************************************************************)
MaxExecs == 2   \* executor calls followed statement by statement
MaxScripts == 3 \* script runs of dashboard.py
MaxPasses == 1  \* script runs of the product view
MaxQueries == 1 \* sales queries followed to the warehouse
MaxTicks == 2
MaxCalls == 2
MaxTurns == 4
MaxRuns  == 1
MaxFlips == 1

(***************************************************************************)
(* Cached executors                                                        *)
(***************************************************************************)
TTL_SECONDS == 3600
NoTTL == 0

Executors == {"product.run_query", "benchmarking.run_query",
              "sales.run_query", "sales.fetch_results",
              "sales.fetch_top_products"}

\* ttl= argument of each @st.cache_data decorator
TtlEverywhere(e) == TTL_SECONDS
Ttl(e) == IF e \in {"product.run_query", "benchmarking.run_query"}
          THEN TTL_SECONDS ELSE NoTTL

\* executors that take (query, params); the others take (query)
Parameterized == {"sales.fetch_results", "sales.fetch_top_products"}

NoParams == <<>>

\* The cache key: the function, and the hash of its arguments.
FingerprintLogical(e, q, p) ==
    <<e, IF q \in {"STORE IN ('S1','S2')", "STORE IN ('S2','S1')"}
         THEN "STORE IN {S1,S2}" ELSE q, p>>
Fingerprint(e, q, p) == <<e, q, p>>

\* An entry is served while its age is below the ttl; without a ttl, always.
ExpiredNever(e, created, t) == FALSE
ExpiredAlways(e, created, t) == TRUE
Expired(e, created, t) == Ttl(e) # NoTTL /\ t - created >= Ttl(e)

Live(e, k, c, t) == k \in DOMAIN c /\ ~Expired(e, c[k].created, t)

\* What the driver does with a statement: rows, no rows, or an exception.
Outcomes == {"rows", "empty", "raise"}

\* The body of an executor: run the statement and return what was fetched; a
\* driver error is caught and None (run_query of the product and
\* benchmarking views), [] (run_query of the sales view) or (None, None)
\* (fetch_results, fetch_top_products) is returned instead.
\* status is the value the caller sees; raised, q, p, at record which
\* execution produced it.
Execute(e, q, p, out, t) ==
    [status |-> IF out = "raise"
                THEN IF e = "sales.run_query" THEN "empty" ELSE "none"
                ELSE out,
     raised |-> out = "raise", q |-> q, p |-> p, at |-> t]

CachedCallSkipsFailures(e, q, p, out, c, t) ==
    LET k == Fingerprint(e, q, p) IN
    IF Live(e, k, c, t)
    THEN [result |-> c[k].result, executed |-> 0, cache |-> c]
    ELSE LET r == Execute(e, q, p, out, t) IN
         [result |-> r, executed |-> 1,
          cache |-> [x \in (DOMAIN c) \cup {k} |->
                        IF x = k
                        THEN IF r.raised /\ k \in DOMAIN c THEN c[k]
                             ELSE [result |-> r,
                                   created |-> IF r.raised THEN t - TTL_SECONDS
                                               ELSE t]
                        ELSE c[x]]]

\* One call through the st.cache_data wrapper.
CachedCall(e, q, p, out, c, t) ==
    LET k == Fingerprint(e, q, p) IN
    IF Live(e, k, c, t)
    THEN [result |-> c[k].result, executed |-> 0, cache |-> c]
    ELSE LET r == Execute(e, q, p, out, t) IN
         [result |-> r, executed |-> 1,
          cache |-> [x \in (DOMAIN c) \cup {k} |->
                        IF x = k THEN [result |-> r, created |-> t]
                        ELSE c[x]]]

(***************************************************************************)
(* SpecCache: calls to the cached executors                                *)
(***************************************************************************)
\* Two literal texts of one logical query: the store list of the competitor-
\* pricing statement in either order of selection.
InterpolatedQueries == {"STORE IN ('S1','S2')", "STORE IN ('S2','S1')"}
Logical(q) == IF q \in InterpolatedQueries THEN "STORE IN {S1,S2}" ELSE q
\* The option-list statement that all three filter views run.
LookupQuery == "SELECT DISTINCT BRAND FROM Products ORDER BY BRAND;"
\* The parameterized executors get one constant text and the filter values.
BoundQuery  == "BRAND = %s"
CacheParams == {<<"All">>, <<"B1">>}
TickSteps   == {1, 3599}

QueriesOf(e) == IF e \in Parameterized THEN {BoundQuery}
                ELSE IF e = "benchmarking.run_query" THEN InterpolatedQueries
                ELSE {LookupQuery}
ParamsOf(e) == IF e \in Parameterized THEN CacheParams ELSE {NoParams}

NoKey  == <<"", "", NoParams>>
NoResult == [status |-> "", raised |-> FALSE, q |-> "", p |-> NoParams,
             at |-> 0]
\* had/was/held: the entry under the key before the call; stored: the
\* creation time of the entry under the key after the call.
NoCall == [key |-> NoKey, by |-> "", e |-> "", q |-> "", p |-> NoParams,
           at |-> 0,
           executed |-> 0, had |-> FALSE, was |-> 0, held |-> NoResult,
           stored |-> 0, result |-> NoResult]

CacheInit ==
    /\ cache = <<>>
    /\ now = 0
    /\ ticks = 0
    /\ calls = 0
    /\ last = NoCall
    /\ prev = NoCall

\* The browser sessions served by the one Streamlit process.
Sessions == {"A", "B"}

\* A call site, in a script run of session s, calls executor e with (q, p);
\* out is what the driver does. The cache is the one of the process.
CallBy(s, e, q, p, out) ==
    /\ calls < MaxCalls
    /\ LET k == Fingerprint(e, q, p)
           r == CachedCall(e, q, p, out, cache, now) IN
       /\ cache' = r.cache
       /\ prev' = last
       /\ last' = [key |-> k, by |-> s, e |-> e, q |-> q, p |-> p, at |-> now,
                   executed |-> r.executed,
                   had |-> k \in DOMAIN cache,
                   was |-> IF k \in DOMAIN cache THEN cache[k].created ELSE 0,
                   held |-> IF k \in DOMAIN cache THEN cache[k].result
                            ELSE NoResult,
                   stored |-> r.cache[k].created,
                   result |-> r.result]
    /\ calls' = calls + 1
    /\ UNCHANGED <<now, ticks>>

\* A call from the script run of one session.
Call(e, q, p, out) == CallBy("A", e, q, p, out)

\* Wall-clock time passes.
Tick(d) ==
    /\ ticks < MaxTicks
    /\ now' = now + d
    /\ ticks' = ticks + 1
    /\ UNCHANGED <<cache, calls, last, prev>>

CacheNext ==
    \/ \E e \in Executors, out \in Outcomes :
         \E q \in QueriesOf(e), p \in ParamsOf(e) : Call(e, q, p, out)
    \/ \E d \in TickSteps : Tick(d)

\* Two sessions calling the same executors: one with a ttl, one without.
SharedExecutors == {"benchmarking.run_query", "sales.fetch_results"}

SessionsNext ==
    \/ \E s \in Sessions, e \in SharedExecutors, out \in Outcomes :
         \E q \in QueriesOf(e), p \in ParamsOf(e) : CallBy(s, e, q, p, out)
    \/ \E d \in TickSteps : Tick(d)

(***************************************************************************)
(* SpecChat: script runs of cortext_analyst() in one browser session       *)
(***************************************************************************)
SUGGESTIONS == <<"Which store has the highest average sales price?",
                 "What are the top 10 products by sales in the Furniture category?">>
SuggestionKeys == <<"suggestion_0", "suggestion_1">>
TypedPrompts == {"typed question"}

TextBlock == [type |-> "text", text |-> "answer", statement |-> ""]
SqlBlock  == [type |-> "sql", text |-> "", statement |-> "SELECT ..."]
Contents  == {<<>>, <<TextBlock>>, <<SqlBlock>>, <<TextBlock, SqlBlock>>,
              <<SqlBlock, TextBlock>>}
Statuses  == {200, 399, 400, 500}

\* What requests.post and resp.json() can produce: a transport error, or a
\* status with a body that is the documented JSON or is not.
Responses ==
    {[transport |-> TRUE, status |-> 0, wellformed |-> FALSE, content |-> <<>>]}
    \cup {[transport |-> FALSE, status |-> s, wellformed |-> FALSE,
           content |-> <<>>] : s \in Statuses}
    \cup {[transport |-> FALSE, status |-> s, wellformed |-> TRUE,
           content |-> c] : s \in Statuses, c \in Contents}
NoResp == [transport |-> FALSE, status |-> 0, wellformed |-> FALSE,
           content |-> <<>>]

\* send_message: returns the parsed body when status < 400, raises otherwise;
\* requests.post, resp.json() and the ["message"]["content"] lookup raise too.
RaisesOffByOne(r) == r.transport \/ r.status > 400 \/ ~r.wellformed
Raises(r) == r.transport \/ r.status >= 400 \/ ~r.wellformed

UserTurnAsAssistant(prompt) ==
    [role |-> "assistant",
     content |-> <<[type |-> "text", text |-> prompt, statement |-> ""]>>]
UserTurn(prompt) ==
    [role |-> "user",
     content |-> <<[type |-> "text", text |-> prompt, statement |-> ""]>>]
AssistantTurnReversed(content) ==
    [role |-> "assistant",
     content |-> [i \in 1..Len(content) |-> content[Len(content) + 1 - i]]]
AssistantTurn(content) == [role |-> "assistant", content |-> content]

\* st.session_state.messages.append(turn)
AppendTurnFront(msgs, turn) == <<turn>> \o msgs
AppendTurn(msgs, turn) == Append(msgs, turn)

\* st.session_state.messages = []
ClearedKeeps(msgs) == msgs
Cleared(msgs) == <<>>

NoEvent == [kind |-> "none", idx |-> 0, prompt |-> ""]
Events ==
    {NoEvent, [kind |-> "clear", idx |-> 0, prompt |-> ""]}
    \cup {[kind |-> "suggestion", idx |-> i, prompt |-> SUGGESTIONS[i]] :
            i \in 1..Len(SUGGESTIONS)}
    \cup {[kind |-> "input", idx |-> 0, prompt |-> t] : t \in TypedPrompts}

\* The widget an event needs in the page the browser shows.
WidgetOf(ev) ==
    CASE ev.kind = "clear" -> {"clear"}
      [] ev.kind = "suggestion" -> {SuggestionKeys[ev.idx]}
      [] ev.kind = "input" -> {"input"}
      [] OTHER -> {}

\* Positions at which no script run is in progress, by how the latest ended.
Resting == {"start", "done", "failed", "crashed", "halted"}

\* The order of the sections of the script after the Clear button.
SectionAfterInputFirst(p) ==
    CASE p = "suggestions" -> "input"
      [] p = "input" -> "history"
      [] p = "history" -> "done"
SectionAfter(p) ==
    CASE p = "suggestions" -> "history"
      [] p = "history" -> "input"
      [] p = "input" -> "done"

\* display_content: what a block is drawn as; a sql block from the shape of
\* the frame pd.read_sql returned.
\* kind: the element drawn; tabs: the tabs st.tabs created; filled: the tabs
\* that were given content; index: the column the charts use as their
\* category axis (0: no chart); rows, cols: the shape of the frame.
TAB_NAMES == <<"Data", "Line Chart", "Bar Chart">>
MarkdownView == [kind |-> "markdown", tabs |-> <<>>, filled |-> {},
                 index |-> 0, rows |-> 0, cols |-> 0]
FlatView(rows, cols) ==
    [kind |-> "dataframe", tabs |-> <<>>, filled |-> {}, index |-> 0,
     rows |-> rows, cols |-> cols]
TabbedView(rows, cols) ==
    [kind |-> "tabs", tabs |-> TAB_NAMES,
     filled |-> IF cols > 1 THEN {"Data", "Line Chart", "Bar Chart"}
                ELSE {"Data"},
     index |-> IF cols > 1 THEN 1 ELSE 0,
     rows |-> rows, cols |-> cols]
SqlViewFromOneRow(rows, cols) ==
    IF rows >= 1 THEN TabbedView(rows, cols) ELSE FlatView(rows, cols)
SqlView(rows, cols) ==
    IF rows > 1 THEN TabbedView(rows, cols) ELSE FlatView(rows, cols)

\* What pd.read_sql does: it raises, or returns a frame of some shape.
SqlOutcomes ==
    {[raises |-> TRUE, rows |-> 0, cols |-> 0]}
    \cup {[raises |-> FALSE, rows |-> r, cols |-> c] :
            r \in {0, 1, 2}, c \in {1, 2}}
NoOutcome == [raises |-> FALSE, rows |-> 0, cols |-> 0]

\* for message in messages: for item in content: the next block at or after
\* <<t, b>>, or <<Len(msgs) + 1, 1>> when the loops are over.
RECURSIVE LoopPos(_, _, _)
LoopPos(msgs, t, b) ==
    IF t > Len(msgs) THEN <<Len(msgs) + 1, 1>>
    ELSE IF b > Len(msgs[t].content) THEN LoopPos(msgs, t + 1, 1)
    ELSE <<t, b>>

AdvanceTurn(pos) == <<pos[1] + 1, 1>>
Advance(pos) == <<pos[1], pos[2] + 1>>

Drawn(msgs, pos, as) ==
    [turn |-> pos[1], block |-> pos[2], role |-> msgs[pos[1]].role,
     item |-> msgs[pos[1]].content[pos[2]], view |-> as]

NoBase == [msgs |-> <<>>, prompt |-> ""]

ChatInit ==
    /\ messages = <<>>
    /\ hasState = FALSE
    /\ conn = "none"
    /\ pc = "start"
    /\ event = NoEvent
    /\ widgets = {}
    /\ rpos = <<1, 1>>
    /\ rendered = <<>>
    /\ outstanding = 0
    /\ resp = NoResp
    /\ passWh = 0
    /\ passAgent = 0
    /\ afterClear = FALSE
    /\ base = NoBase
    /\ aborted = FALSE

\* The top of a script run: nothing is drawn yet, no call was made.
Top(ev, cleared) ==
    /\ pc' = "connect"
    /\ event' = ev
    /\ widgets' = {}
    /\ rpos' = <<1, 1>>
    /\ rendered' = <<>>
    /\ passWh' = 0
    /\ passAgent' = 0
    /\ afterClear' = cleared

\* A widget event (or a plain reload) starts a script run.
RunStart(ev) ==
    /\ pc \in Resting
    /\ WidgetOf(ev) \subseteq widgets
    /\ ev.kind \in {"suggestion", "input"} => Len(messages) + 2 <= MaxTurns
    /\ Top(ev, FALSE)
    /\ resp' = NoResp
    /\ base' = NoBase
    /\ UNCHANGED <<messages, hasState, conn, outstanding, aborted>>

\* Lines 160-173: the connection and the session state.
Connect(ok) ==
    /\ pc = "connect"
    /\ IF conn = "none" /\ ~ok
       THEN /\ pc' = "halted"
            /\ UNCHANGED <<messages, hasState, conn>>
       ELSE /\ conn' = "live"
            /\ hasState' = TRUE
            /\ messages' = IF hasState THEN messages ELSE <<>>
            /\ pc' = "clear"
    /\ conn = "live" => ok
    /\ UNCHANGED <<event, widgets, rpos, rendered, outstanding, resp, passWh,
                   passAgent, afterClear, base, aborted>>

\* Lines 183-188: the Clear Chat button.
ClearChat ==
    /\ pc = "clear"
    /\ IF event.kind = "clear"
       THEN /\ messages' = Cleared(messages)
            /\ base' = [msgs |-> messages, prompt |-> ""]
            /\ aborted' = FALSE
            /\ Top(NoEvent, TRUE)
       ELSE /\ pc' = "suggestions"
            /\ widgets' = widgets \cup {"clear"}
            /\ UNCHANGED <<messages, event, rpos, rendered, passWh, passAgent,
                           afterClear, base, aborted>>
    /\ UNCHANGED <<hasState, conn, outstanding, resp>>

\* process_message, first statement: the user Turn.
Submit(prompt) ==
    /\ base' = [msgs |-> messages, prompt |-> prompt]
    /\ messages' = AppendTurn(messages, UserTurn(prompt))
    /\ pc' = "send"

\* Lines 190-200: the suggestion buttons, drawn while the transcript is empty.
Suggest ==
    /\ pc = "suggestions"
    /\ IF Len(messages) = 0
       THEN IF event.kind = "suggestion"
            THEN /\ widgets' = widgets \cup
                        {SuggestionKeys[i] : i \in 1..event.idx}
                 /\ Submit(event.prompt)
            ELSE /\ widgets' = widgets \cup
                        {SuggestionKeys[i] : i \in 1..Len(SUGGESTIONS)}
                 /\ pc' = SectionAfter("suggestions")
                 /\ UNCHANGED <<messages, base>>
       ELSE /\ pc' = SectionAfter("suggestions")
            /\ UNCHANGED <<messages, base, widgets>>
    /\ UNCHANGED <<hasState, conn, event, rpos, rendered, outstanding, resp,
                   passWh, passAgent, afterClear, aborted>>

\* display_content, line 111: pd.read_sql sends the statement to the
\* warehouse each time it is called; n statements were sent before it.
StatementsSentMemoized(n) == IF n = 0 THEN 1 ELSE n
StatementsSent(n) == n + 1

\* display_content, lines 111-112: nothing catches what pd.read_sql raises,
\* so the exception ends the script run.
AfterSqlErrorCaught == "history"
AfterSqlError == "crashed"

\* Lines 202-204 with display_content: one block of the history per step.
RenderBlock(out) ==
    /\ pc = "history"
    /\ LET pos == LoopPos(messages, rpos[1], rpos[2]) IN
       IF pos[1] > Len(messages)
       THEN /\ out = NoOutcome
            /\ pc' = SectionAfter("history")
            /\ rpos' = pos
            /\ UNCHANGED <<rendered, passWh>>
       ELSE IF messages[pos[1]].content[pos[2]].type = "text"
       THEN /\ out = NoOutcome
            /\ rendered' = Append(rendered, Drawn(messages, pos, MarkdownView))
            /\ rpos' = Advance(pos)
            /\ UNCHANGED <<pc, passWh>>
       ELSE /\ out \in SqlOutcomes
            /\ passWh' = StatementsSent(passWh)
            /\ IF out.raises
               THEN /\ pc' = AfterSqlError
                    /\ UNCHANGED <<rendered, rpos>>
               ELSE /\ rendered' = Append(rendered,
                           Drawn(messages, pos, SqlView(out.rows, out.cols)))
                    /\ rpos' = Advance(pos)
                    /\ UNCHANGED pc
    /\ aborted' = (aborted \/ out.raises)
    /\ UNCHANGED <<messages, hasState, conn, event, widgets, outstanding, resp,
                   passAgent, afterClear, base>>

\* Lines 206-209: the chat input.
ChatInput ==
    /\ pc = "input"
    /\ widgets' = widgets \cup {"input"}
    /\ IF event.kind = "input"
       THEN Submit(event.prompt)
       ELSE /\ pc' = SectionAfter("input")
            /\ UNCHANGED <<messages, base>>
    /\ UNCHANGED <<hasState, conn, event, rpos, rendered, outstanding, resp,
                   passWh, passAgent, afterClear, aborted>>

\* process_message -> send_message: the request leaves.
SendMessage ==
    /\ pc = "send"
    /\ outstanding' = outstanding + 1
    /\ passAgent' = passAgent + 1
    /\ pc' = "awaiting"
    /\ UNCHANGED <<messages, hasState, conn, event, widgets, rpos, rendered,
                   resp, passWh, afterClear, base, aborted>>

\* The request returns: send_message raises, or process_message appends the
\* assistant Turn and the caller reruns the script.
AgentResponse(r) ==
    /\ pc = "awaiting"
    /\ outstanding' = outstanding - 1
    /\ resp' = r
    /\ IF Raises(r)
       THEN /\ pc' = "failed"
            /\ UNCHANGED <<messages, event, widgets, rpos, rendered, passWh,
                           passAgent, afterClear>>
       ELSE /\ messages' = AppendTurn(messages, AssistantTurn(r.content))
            /\ Top(NoEvent, FALSE)
    /\ UNCHANGED <<hasState, conn, base, aborted>>

ChatNext ==
    \/ \E ev \in Events : RunStart(ev)
    \/ \E ok \in BOOLEAN : Connect(ok)
    \/ ClearChat
    \/ Suggest
    \/ \E out \in SqlOutcomes \cup {NoOutcome} : RenderBlock(out)
    \/ ChatInput
    \/ SendMessage
    \/ \E r \in Responses : AgentResponse(r)

(***************************************************************************)
(* SpecViews: script runs of the sales view and of the benchmarking view   *)
(***************************************************************************)
\* Query texts are token sequences: the constant text, then what the view
\* interpolates into it.
Q_BRANDS        == <<"SELECT DISTINCT BRAND FROM Products">>
Q_CATEGORIES    == <<"SELECT DISTINCT BENCHMARK_CATG FROM BENCHMARK">>
Q_MERCHANTS     == <<"SELECT DISTINCT THIRD_PARTY_MERCHANT_NAME">>
Q_SUBCATS       == <<"SELECT DISTINCT BENCHMARK_SUBCATG FROM BENCHMARK">>
Q_SUBCATS_OF(c) == <<"SELECT DISTINCT BENCHMARK_SUBCATG WHERE BENCHMARK_CATG =", c>>
Q_SALES         == <<"SELECT ... SUM(s.TOTAL_SALE_AMOUNT) AS TOTAL_SALES">>
Q_TOP_PRODUCTS  == <<"WITH ProductSales AS ... RANK <= 5">>
Q_PRICE         == <<"SELECT ... PRICE_COMPARISON">>
Q_STORES        == <<"SELECT DISTINCT BENCHMARK_STORE FROM Benchmark">>
Q_BRAND_NAMES   == <<"SELECT DISTINCT BENCHMARK_BRAND_NAME FROM Benchmark">>
Q_COMPETITOR(brand, stores, d1, d2) ==
    <<"SELECT ... BENCHMARK_BRAND_NAME =", brand, "BENCHMARK_STORE IN">>
      \o stores \o <<"PRICE_SCRAPE_DATE BETWEEN", d1, d2>>
Q_BENCH_CATEGORY == <<"SELECT ... FROM Sales s JOIN Benchmark b">>
Q_PAYMENT        == <<"SELECT s.PAYMENT_METHOD, COUNT(s.SALE_ID)">>
Q_SEGMENTATION   == <<"SELECT s.CUSTOMER_ID, SUM(s.TOTAL_SALE_AMOUNT)">>

\* What the tables hold when they hold rows.
BRANDS      == {"B1"}
CATEGORIES  == {"C1"}
SUBCATS     == {"SC1"}
MERCHANTS   == {"M1"}
STORES      == {"S1", "S2"}
BRAND_NAMES == {"B1"}

\* st.date_input in range mode returns a tuple of 0, 1 or 2 dates.
DateInputs == {<<>>, <<"2023-01-01">>, <<"2023-01-01", "2025-12-31">>,
               <<"2025-12-31", "2023-01-01">>}
DateOrd(d) == IF d = "2023-01-01" THEN 1 ELSE 2
\* str() of a bound; None where the tuple has no such bound
Bound(d, i) == IF Len(d) >= i THEN d[i] ELSE "None"

\* len(date_range) != 2 (negated)
TwoBoundsOrOne(d) == Len(d) >= 1
TwoBounds(d) == Len(d) = 2

\* None if selected == "All" else selected
FilterValueLiteral(selected) == selected
FilterValue(selected) == IF selected = "All" THEN "NULL" ELSE selected

SalesParams(s) ==
    <<Bound(s.dates, 1), Bound(s.dates, 2),
      FilterValue(s.brand), FilterValue(s.brand),
      FilterValue(s.category), FilterValue(s.category),
      FilterValue(s.subcategory), FilterValue(s.subcategory),
      FilterValue(s.merchant), FilterValue(s.merchant)>>
TopParams(s) ==
    <<Bound(s.dates, 1), Bound(s.dates, 2),
      FilterValue(s.brand), FilterValue(s.brand)>>

\* Orders in which the multiselect can hold a selection of the options.
StoreLists(options) ==
    {<<>>} \cup {<<a>> : a \in options}
    \cup {s \in {<<a, b>> : a \in options, b \in options} : s[1] # s[2]}

\* What the driver does with a statement now. A lookup reads a whole table;
\* a filtered statement may match no row of a filled table.
Driver(filtered, match) ==
    IF wh = "down" THEN "raise"
    ELSE IF tables = "empty" THEN "empty"
    ELSE IF filtered /\ ~match THEN "empty" ELSE "rows"

Options(status, values) == IF status = "rows" THEN values ELSE {}

NoSel == [brand |-> "", category |-> "", subcategory |-> "", merchant |-> "",
          stores |-> <<>>, dates |-> <<>>, read |-> FALSE]
NoLookups == [brands |-> "", categories |-> "", merchants |-> "",
              subcategories |-> "", stores |-> "", brand_names |-> ""]

MSG_DATES   == "error: Please select a valid start and end date."
MSG_ORDER   == "error: Start date must be before end date."
MSG_NO_DATA == "warning: No data found for the selected filters."
MSG_NO_TOP  == "warning: No data found for top-performing products."
MSG_ADJUST  == "info: Please adjust the filters above to see competitor pricing trends."
MSG_NO_COMP == "warning: No data available for competitor pricing trends."

ViewInit ==
    /\ view = "none"
    /\ vpc = "idle"
    /\ runs = 0
    /\ sel = NoSel
    /\ issued = {}
    /\ asked = <<>>
    /\ shown = {}
    /\ lookups = NoLookups
    /\ wh = "up"
    /\ flips = 0
    /\ tables = "filled"

\* The sites among cs whose call executed its query.
Sent(cs) == {c.site : c \in {x \in cs : x.call.executed = 1}}

\* The menu selects a page and its function runs from the top.
ViewStart(v) ==
    /\ vpc = "idle"
    /\ runs < MaxRuns
    /\ runs' = runs + 1
    /\ view' = v
    /\ vpc' = IF v = "sales" THEN "s_lookups" ELSE "b_price"
    /\ sel' = NoSel
    /\ issued' = {}
    /\ asked' = <<>>
    /\ shown' = {}
    /\ lookups' = NoLookups
    /\ UNCHANGED <<wh, flips, tables, cacheVars>>

\* sales view, lines 52-61: the three option lists.
SalesLookups ==
    /\ vpc = "s_lookups"
    /\ LET out == Driver(FALSE, TRUE)
           c1 == CachedCall("sales.run_query", Q_BRANDS, NoParams, out,
                            cache, now)
           c2 == CachedCall("sales.run_query", Q_CATEGORIES, NoParams, out,
                            c1.cache, now)
           c3 == CachedCall("sales.run_query", Q_MERCHANTS, NoParams, out,
                            c2.cache, now) IN
       /\ cache' = c3.cache
       /\ lookups' = [lookups EXCEPT !.brands = c1.result.status,
                                     !.categories = c2.result.status,
                                     !.merchants = c3.result.status]
       /\ issued' = issued \cup Sent({[site |-> "brands", call |-> c1],
                                      [site |-> "categories", call |-> c2],
                                      [site |-> "merchants", call |-> c3]})
    /\ vpc' = "s_filters"
    /\ UNCHANGED <<asked, view, runs, sel, shown, wh, flips, tables, now, ticks,
                   calls, last, prev>>

\* sales view, lines 67-83: category, merchant and brand, then the
\* subcategories of the category.
SalesFilters(cat, merch, brand) ==
    /\ vpc = "s_filters"
    /\ cat \in {"All"} \cup Options(lookups.categories, CATEGORIES)
    /\ merch \in {"All"} \cup Options(lookups.merchants, MERCHANTS)
    /\ brand \in {"All"} \cup Options(lookups.brands, BRANDS)
    /\ sel' = [sel EXCEPT !.category = cat, !.merchant = merch,
                          !.brand = brand]
    /\ LET q == IF cat # "All" THEN Q_SUBCATS_OF(cat) ELSE Q_SUBCATS
           c == CachedCall("sales.run_query", q, NoParams,
                           Driver(cat # "All", TRUE), cache, now) IN
       /\ cache' = c.cache
       /\ lookups' = [lookups EXCEPT !.subcategories = c.result.status]
       /\ issued' = issued \cup Sent({[site |-> "subcategories", call |-> c]})
    /\ vpc' = "s_dates"
    /\ UNCHANGED <<asked, view, runs, shown, wh, flips, tables, now, ticks, calls,
                   last, prev>>

\* sales view, lines 85-104: the subcategory and the date range.
SalesDates(sub, dates) ==
    /\ vpc = "s_dates"
    /\ sub \in {"All"} \cup Options(lookups.subcategories, SUBCATS)
    /\ dates \in DateInputs
    /\ sel' = [sel EXCEPT !.subcategory = sub, !.dates = dates,
                          !.read = TRUE]
    /\ IF ~TwoBounds(dates)
       THEN /\ shown' = shown \cup {MSG_DATES}
            /\ vpc' = "idle"
       ELSE IF DateOrd(Bound(dates, 1)) > DateOrd(Bound(dates, 2))
       THEN /\ shown' = shown \cup {MSG_ORDER}
            /\ vpc' = "idle"
       ELSE /\ vpc' = "s_main"
            /\ UNCHANGED shown
    /\ UNCHANGED <<asked, view, runs, issued, lookups, wh, flips, tables, cacheVars>>

\* sales view, lines 106-231: the main query and its charts.
SalesMain(match) ==
    /\ vpc = "s_main"
    /\ LET c == CachedCall("sales.fetch_results", Q_SALES, SalesParams(sel),
                           Driver(TRUE, match), cache, now) IN
       /\ cache' = c.cache
       /\ issued' = issued \cup Sent({[site |-> "sales_main", call |-> c]})
       /\ shown' = shown \cup (IF c.result.status = "rows"
                               THEN {"charts: sales"} ELSE {MSG_NO_DATA})
    /\ vpc' = "s_top"
    /\ UNCHANGED <<asked, view, runs, sel, lookups, wh, flips, tables, now, ticks,
                   calls, last, prev>>

\* sales view, lines 233-314: the top products of each brand.
SalesTop(match) ==
    /\ vpc = "s_top"
    /\ LET c == CachedCall("sales.fetch_top_products", Q_TOP_PRODUCTS,
                           TopParams(sel), Driver(TRUE, match), cache, now) IN
       /\ cache' = c.cache
       /\ issued' = issued \cup Sent({[site |-> "top_products", call |-> c]})
       /\ shown' = shown \cup (IF c.result.status = "rows"
                               THEN {"charts: top products"} ELSE {MSG_NO_TOP})
    /\ vpc' = "idle"
    /\ UNCHANGED <<asked, view, runs, sel, lookups, wh, flips, tables, now, ticks,
                   calls, last, prev>>

\* benchmarking view, lines 68-147: the price comparison section.
BenchPrice ==
    /\ vpc = "b_price"
    /\ LET out == Driver(FALSE, TRUE)
           c1 == CachedCall("benchmarking.run_query", Q_BRANDS, NoParams, out,
                            cache, now)
           c2 == CachedCall("benchmarking.run_query", Q_CATEGORIES, NoParams,
                            out, c1.cache, now)
           c3 == CachedCall("benchmarking.run_query", Q_PRICE, NoParams, out,
                            c2.cache, now) IN
       /\ cache' = c3.cache
       /\ lookups' = [lookups EXCEPT !.brands = c1.result.status,
                                     !.categories = c2.result.status]
       /\ issued' = issued \cup Sent({[site |-> "brands", call |-> c1],
                                      [site |-> "categories", call |-> c2],
                                      [site |-> "price_comparison", call |-> c3]})
       /\ shown' = shown \cup
             (IF c3.result.status = "rows" THEN {"table: price comparison"}
              ELSE {"warning: No data available for price comparison."})
    /\ vpc' = "b_lookups"
    /\ UNCHANGED <<asked, view, runs, sel, wh, flips, tables, now, ticks, calls,
                   last, prev>>

\* benchmarking view, lines 155-168: the stores and brand names; indexing a
\* None result raises and ends the script run.
BenchLookups ==
    /\ vpc = "b_lookups"
    /\ LET out == Driver(FALSE, TRUE)
           c1 == CachedCall("benchmarking.run_query", Q_STORES, NoParams, out,
                            cache, now)
           c2 == CachedCall("benchmarking.run_query", Q_BRAND_NAMES, NoParams,
                            out, c1.cache, now) IN
       /\ cache' = c2.cache
       /\ lookups' = [lookups EXCEPT !.stores = c1.result.status,
                                     !.brand_names = c2.result.status]
       /\ issued' = issued \cup Sent({[site |-> "stores", call |-> c1],
                                      [site |-> "brand_names", call |-> c2]})
       /\ IF c1.result.status = "none" \/ c2.result.status = "none"
          THEN /\ shown' = shown \cup {"exception: TypeError"}
               /\ vpc' = "idle"
          ELSE /\ vpc' = "b_competitor"
               /\ UNCHANGED shown
    /\ UNCHANGED <<asked, view, runs, sel, wh, flips, tables, now, ticks, calls,
                   last, prev>>

\* benchmarking view, lines 178-187: valid_inputs.
ValidInputsDatesOnly(dates, stores) == TwoBounds(dates)
ValidInputs(dates, stores) == TwoBounds(dates) /\ stores # <<>>

\* benchmarking view, lines 161-235: brand, stores and date range, then the
\* competitor pricing query or the prompt.
BenchCompetitor(brand, stores, dates, match) ==
    /\ vpc = "b_competitor"
    /\ brand \in IF lookups.brand_names = "rows" THEN BRAND_NAMES ELSE {"None"}
    /\ stores \in StoreLists(Options(lookups.stores, STORES))
    /\ dates \in DateInputs
    /\ sel' = [sel EXCEPT !.brand = brand, !.stores = stores,
                          !.dates = dates, !.read = TRUE]
    /\ IF ValidInputs(dates, stores)
       THEN LET c == CachedCall("benchmarking.run_query",
                                Q_COMPETITOR(brand, stores, Bound(dates, 1),
                                             Bound(dates, 2)),
                                NoParams, Driver(TRUE, match), cache, now) IN
            /\ cache' = c.cache
            /\ asked' = Append(asked, Q_COMPETITOR(brand, stores,
                                                   Bound(dates, 1),
                                                   Bound(dates, 2)))
            /\ issued' = issued \cup
                   Sent({[site |-> "competitor_pricing", call |-> c]})
            /\ shown' = shown \cup
                   (IF c.result.status = "rows"
                    THEN {"chart: competitor pricing"} ELSE {MSG_NO_COMP})
       ELSE /\ match
            /\ shown' = shown \cup {MSG_ADJUST}
            /\ UNCHANGED <<cache, issued, asked>>
    /\ vpc' = "b_category"
    /\ UNCHANGED <<view, runs, lookups, wh, flips, tables, now, ticks, calls,
                   last, prev>>

\* benchmarking view, lines 239-303: category performance and payment
\* methods.
BenchCategoryAndPayment ==
    /\ vpc = "b_category"
    /\ LET out == Driver(FALSE, TRUE)
           c1 == CachedCall("benchmarking.run_query", Q_BENCH_CATEGORY,
                            NoParams, out, cache, now)
           c2 == CachedCall("benchmarking.run_query", Q_PAYMENT, NoParams,
                            out, c1.cache, now) IN
       /\ cache' = c2.cache
       /\ issued' = issued \cup
              Sent({[site |-> "benchmark_category", call |-> c1],
                    [site |-> "payment_methods", call |-> c2]})
       /\ shown' = shown
              \cup (IF c1.result.status = "rows" THEN {"chart: sunburst"}
                    ELSE {"warning: No data available for benchmark category performance."})
              \cup (IF c2.result.status = "rows" THEN {"chart: pie"}
                    ELSE {"warning: No data available for payment methods."})
    /\ vpc' = "b_segmentation"
    /\ UNCHANGED <<asked, view, runs, sel, lookups, wh, flips, tables, now, ticks,
                   calls, last, prev>>

\* benchmarking view, lines 307-356: customer segmentation; min() over a
\* None or an empty result raises and ends the script run.
BenchSegmentation ==
    /\ vpc = "b_segmentation"
    /\ LET c == CachedCall("benchmarking.run_query", Q_SEGMENTATION, NoParams,
                           Driver(FALSE, TRUE), cache, now) IN
       /\ cache' = c.cache
       /\ issued' = issued \cup
              Sent({[site |-> "customer_segmentation", call |-> c]})
       /\ shown' = shown \cup
              (IF c.result.status = "rows" THEN {"chart: segmentation"}
               ELSE IF c.result.status = "none" THEN {"exception: TypeError"}
               ELSE {"exception: ValueError"})
    /\ vpc' = "idle"
    /\ UNCHANGED <<asked, view, runs, sel, lookups, wh, flips, tables, now, ticks,
                   calls, last, prev>>

\* The warehouse becomes unreachable, or reachable again.
WarehouseFlip ==
    /\ flips < MaxFlips
    /\ flips' = flips + 1
    /\ wh' = IF wh = "up" THEN "down" ELSE "up"
    /\ UNCHANGED <<asked, view, vpc, runs, sel, issued, shown, lookups, tables,
                   cacheVars>>

\* An hour passes between two script runs.
Wait ==
    /\ vpc = "idle"
    /\ runs >= 1
    /\ Tick(TTL_SECONDS)
    /\ UNCHANGED viewVars

ViewNext ==
    \/ \E v \in {"sales", "benchmarking"} : ViewStart(v)
    \/ SalesLookups
    \/ \E cat \in {"All"} \cup CATEGORIES, merch \in {"All"} \cup MERCHANTS,
          brand \in {"All"} \cup BRANDS : SalesFilters(cat, merch, brand)
    \/ \E sub \in {"All"} \cup SUBCATS, dates \in DateInputs :
          SalesDates(sub, dates)
    \/ \E match \in BOOLEAN : SalesMain(match)
    \/ \E match \in BOOLEAN : SalesTop(match)
    \/ BenchPrice
    \/ BenchLookups
    \/ \E brand \in BRAND_NAMES \cup {"None"}, stores \in StoreLists(STORES),
          dates \in DateInputs, match \in BOOLEAN :
          BenchCompetitor(brand, stores, dates, match)
    \/ BenchCategoryAndPayment
    \/ BenchSegmentation
    \/ WarehouseFlip
    \/ Wait

(***************************************************************************)
(* The body of an executor, statement by statement (SpecExec)              *)
(***************************************************************************)
\* The driver calls of the try block, in order. sales.run_query does not read
\* cur.description.
StagesOf(e) ==
    IF e = "sales.run_query"
    THEN <<"cursor", "execute", "fetch">>
    ELSE <<"cursor", "execute", "description", "fetch">>

\* The stage after stage s of executor e.
StageAfter(e, s) ==
    LET i == CHOOSE k \in 1..Len(StagesOf(e)) : StagesOf(e)[k] = s IN
    StagesOf(e)[i + 1]

\* The text st.error is given in the except clause of each executor.
ErrorMessage(e) ==
    CASE e = "sales.fetch_results" -> "Error fetching results"
      [] e = "sales.fetch_top_products" ->
             "Error fetching top-performing products"
      [] OTHER -> "Error executing query"

\* The driver calls that stand inside the try block: `with conn.cursor()`
\* and everything under it.
TryCoversInsideWith == {"execute", "description", "fetch"}
TryCovers == {"cursor", "execute", "description", "fetch"}

NoExec == [pc |-> "idle", e |-> "", q |-> "", p |-> NoParams, n |-> 0,
           cursors |-> 0, stage |-> "", msg |-> "", ret |-> NoResult,
           escaped |-> FALSE]

ExecInit == exec = NoExec

\* The open cursors when the with block is left, by return or by exception,
\* n being open inside it: __exit__ closes the cursor the block opened.
ReleasedOnReturnOnly(path, n) == IF path = "return" /\ n > 0 THEN n - 1 ELSE n
ReleasedOn(path, n) == IF n > 0 THEN n - 1 ELSE n

\* The call after the driver raised at stage s: the with block has released
\* the cursor if there was one, and `except Exception` reports and returns
\* the failure value.
Raised(x, s) ==
    IF s \in TryCovers
    THEN [x EXCEPT !.pc = "idle", !.cursors = ReleasedOn("raise", @),
                   !.stage = s,
                   !.msg = ErrorMessage(x.e),
                   !.ret = Execute(x.e, x.q, x.p, "raise", now)]
    ELSE [x EXCEPT !.pc = "idle", !.cursors = ReleasedOn("raise", @),
                   !.stage = s,
                   !.escaped = TRUE]

\* An executor is entered with a query (and parameters).
ExecEnter(e, q, p) ==
    /\ exec.pc = "idle"
    /\ exec.n < MaxExecs
    /\ q \in QueriesOf(e)
    /\ p \in ParamsOf(e)
    /\ exec' = [NoExec EXCEPT !.pc = "cursor", !.e = e, !.q = q, !.p = p,
                              !.n = exec.n + 1, !.cursors = exec.cursors]

\* conn.cursor()
ExecCursor(ok) ==
    /\ exec.pc = "cursor"
    /\ exec' = IF ok
               THEN [exec EXCEPT !.pc = StageAfter(exec.e, "cursor"),
                                 !.cursors = @ + 1]
               ELSE Raised(exec, "cursor")

\* cur.execute(query) or cur.execute(query, params)
ExecExecute(ok) ==
    /\ exec.pc = "execute"
    /\ exec' = IF ok
               THEN [exec EXCEPT !.pc = StageAfter(exec.e, "execute")]
               ELSE Raised(exec, "execute")

\* [desc[0] for desc in cur.description]
ExecDescription(ok) ==
    /\ exec.pc = "description"
    /\ exec' = IF ok
               THEN [exec EXCEPT !.pc = StageAfter(exec.e, "description")]
               ELSE Raised(exec, "description")

\* cur.fetchall() and the return
ExecFetch(out) ==
    /\ exec.pc = "fetch"
    /\ exec' = IF out = "raise"
               THEN Raised(exec, "fetch")
               ELSE [exec EXCEPT !.pc = "idle",
                                 !.cursors = ReleasedOn("return", @),
                                 !.ret = Execute(exec.e, exec.q, exec.p, out,
                                                 now)]

ExecNext ==
    \/ \E e \in Executors, q \in InterpolatedQueries \cup {LookupQuery, BoundQuery},
          p \in CacheParams \cup {NoParams} : ExecEnter(e, q, p)
    \/ \E ok \in BOOLEAN : ExecCursor(ok)
    \/ \E ok \in BOOLEAN : ExecExecute(ok)
    \/ \E ok \in BOOLEAN : ExecDescription(ok)
    \/ \E out \in Outcomes : ExecFetch(out)

(***************************************************************************)
(* Connections: the imports of dashboard.py and the pages (SpecConn)       *)
(***************************************************************************)
\* dashboard.py, lines 3-5: the modules whose import connects, in order.
FilterModules == <<"product_performance_metrics", "sales_performance_metrics",
                   "benchmarking_and_customer_insights">>
ChatModule == "cortex_analyst"
\* Every module that defines an init_connection under st.cache_resource.
ConnModules == {FilterModules[i] : i \in 1..Len(FilterModules)} \cup {ChatModule}
\* dashboard.py, lines 13-16: the pages of the menu.
Pages == {"Product Performance", "Sales Performance",
          "Benchmarking & Insights", "Chat with Agent"}

MSG_CONNECT == "error: Error connecting to Snowflake"

\* init_connection() of module m under st.cache_resource: the held
\* connection if there is one, otherwise connect(); a failed connect() is
\* reported and stops the script run, and nothing is stored.
InitConnection(m, ok, res, n) ==
    IF res[m] # 0
    THEN [conn |-> res[m], resource |-> res, made |-> n, attempted |-> 0,
          failed |-> FALSE]
    ELSE IF ok
    THEN [conn |-> n + 1, resource |-> [res EXCEPT ![m] = n + 1],
          made |-> n + 1, attempted |-> 1, failed |-> FALSE]
    ELSE [conn |-> 0, resource |-> res, made |-> n, attempted |-> 1,
          failed |-> TRUE]

\* Where the script run is after st.stop(), given where it would have gone.
AfterStopContinues(next) == next
AfterStop(next) == "halted"

\* after: connect() calls and statements of this script run that came
\* after a failed connect().
NoRun == [pc |-> "idle", session |-> "", page |-> "", mod |-> 0,
          attempts |-> 0, failed |-> FALSE, shown |-> {}, queries |-> 0,
          after |-> 0]

ConnInit ==
    /\ resource = [m \in ConnModules |-> 0]
    /\ modconn = [i \in 1..Len(FilterModules) |-> 0]
    /\ sessconn = [s \in Sessions |-> 0]
    /\ made = 0
    /\ scripts = 0
    /\ run = NoRun

\* The run after a call of init_connection that returned c.
Connected(r, c, next) ==
    [r EXCEPT !.pc = IF c.failed THEN AfterStop(next) ELSE next,
              !.attempts = @ + c.attempted,
              !.after = @ + (IF r.failed THEN c.attempted ELSE 0),
              !.failed = @ \/ c.failed,
              !.shown = IF c.failed THEN @ \cup {MSG_CONNECT} ELSE @]

\* A session opens the dashboard, or a widget event reruns the script.
ScriptStart(s, page) ==
    /\ run.pc \in {"idle", "halted"}
    /\ scripts < MaxScripts
    /\ scripts' = scripts + 1
    /\ run' = [NoRun EXCEPT !.pc = "import", !.session = s, !.page = page,
                            !.mod = 1]
    /\ UNCHANGED <<resource, modconn, sessconn, made>>

\* dashboard.py, lines 3-5: one import. A module already imported is not
\* executed again; otherwise its module-level `conn = init_connection()`
\* runs, and a stopped import leaves the module not imported.
ImportModule(ok) ==
    /\ run.pc = "import"
    /\ LET i == run.mod
           next == IF i < Len(FilterModules) THEN "import" ELSE "page"
           step == [run EXCEPT !.mod = IF i < Len(FilterModules)
                                       THEN i + 1 ELSE 0] IN
       IF modconn[i] # 0
       THEN /\ ok
            /\ run' = [step EXCEPT !.pc = next]
            /\ UNCHANGED <<resource, modconn, made>>
       ELSE LET c == InitConnection(FilterModules[i], ok, resource, made) IN
            /\ resource' = c.resource
            /\ made' = c.made
            /\ modconn' = [modconn EXCEPT ![i] = c.conn]
            /\ run' = Connected(step, c, next)
    /\ UNCHANGED <<sessconn, scripts>>

\* dashboard.py, lines 48-53: a filter view runs its statements on the
\* `conn` of its module.
FilterPage ==
    /\ run.pc = "page"
    /\ run.page # "Chat with Agent"
    /\ run' = [run EXCEPT !.pc = "idle", !.queries = @ + 1,
                          !.after = @ + (IF run.failed THEN 1 ELSE 0)]
    /\ UNCHANGED <<resource, modconn, sessconn, made, scripts>>

\* cortex_analyst.py, lines 160-166: the chat view connects when its session
\* holds no CONN.
ChatConnect(ok) ==
    /\ run.pc = "page"
    /\ run.page = "Chat with Agent"
    /\ IF sessconn[run.session] # 0
       THEN /\ ok
            /\ run' = [run EXCEPT !.pc = "chat"]
            /\ UNCHANGED <<resource, sessconn, made>>
       ELSE LET c == InitConnection(ChatModule, ok, resource, made) IN
            /\ resource' = c.resource
            /\ made' = c.made
            /\ sessconn' = [sessconn EXCEPT ![run.session] = c.conn]
            /\ run' = Connected(run, c, "chat")
    /\ UNCHANGED <<modconn, scripts>>

\* cortex_analyst.py, lines 168-209: the rest of the chat view, which runs
\* the sql blocks of the transcript on the CONN of the session.
ChatPage ==
    /\ run.pc = "chat"
    /\ run' = [run EXCEPT !.pc = "idle", !.queries = @ + 1,
                          !.after = @ + (IF run.failed THEN 1 ELSE 0)]
    /\ UNCHANGED <<resource, modconn, sessconn, made, scripts>>

ConnNext ==
    \/ \E s \in Sessions, page \in Pages : ScriptStart(s, page)
    \/ \E ok \in BOOLEAN : ImportModule(ok)
    \/ FilterPage
    \/ \E ok \in BOOLEAN : ChatConnect(ok)
    \/ ChatPage

(***************************************************************************)
(* The product view: brand filter, top ten, average price (SpecProduct)    *)
(***************************************************************************)
\* A title is NULL or a text, a text being its characters in order.
NullTitle == [null |-> TRUE, text |-> <<>>]
Title(t) == [null |-> FALSE, text |-> t]

\* Rows that Sales joined with Products may hold, one per product title.
ProductRows ==
    {[title |-> Title(<<"C", "h">>), brand |-> "B1", price |-> 10],
     [title |-> Title(<<"d", "e">>), brand |-> "B2", price |-> 20],
     [title |-> NullTitle, brand |-> "B1", price |-> 30]}

\* What the user may type into the search box.
SearchTerms == {<<>>, <<"c", "H">>, <<"z">>}
\* The values of the display-count slider that are tried.
DisplayCounts == {5, 15}

\* Line 76: brand_filter_condition.
BrandFilterCondition(brand) ==
    IF brand # "All" THEN <<"AND p.BRAND =", brand>> ELSE <<>>

\* Lines 82-98 and 125-142: the two query texts.
TopProductsQuery(brand) ==
    <<"SELECT p.PRODUCT_TITLE, SUM(s.QUANTITY_SOLD) ... WHERE 1=1">>
    \o BrandFilterCondition(brand)
    \o <<"GROUP BY p.PRODUCT_TITLE ORDER BY TOTAL_QUANTITY_SOLD DESC LIMIT 10">>
AvgPriceQuery(brand) ==
    <<"SELECT p.PRODUCT_TITLE, AVG(s.SALE_PRICE) ... WHERE 1=1">>
    \o BrandFilterCondition(brand)
    \o <<"GROUP BY p.PRODUCT_TITLE ORDER BY AVERAGE_SALE_PRICE DESC">>

\* The rows of data the warehouse returns for a query text: those of the
\* brand the text names, or all of them when it names none.
HasBrandCondition(q) == \E i \in 1..Len(q) : q[i] = "AND p.BRAND ="
Rows(data, q) ==
    IF HasBrandCondition(q)
    THEN LET i == CHOOSE k \in 1..Len(q) : q[k] = "AND p.BRAND =" IN
         {r \in data : r.brand = q[i + 1]}
    ELSE data

\* str.lower() on the characters in use.
Lower(c) == CASE c = "C" -> "c" [] c = "H" -> "h" [] OTHER -> c

\* Series.str.contains(pat, case=False, na=False) on one title: a NULL
\* title gives the na value, False; a text matches when pat occurs in it,
\* letter case aside.
Contains(title, pat) ==
    IF title.null THEN FALSE
    ELSE \E i \in 1..(Len(title.text) - Len(pat) + 1) :
            \A j \in 1..Len(pat) :
                Lower(title.text[i + j - 1]) = Lower(pat[j])

\* Lines 160-165: the price range filter.
InRange(rows, lo, hi) == {r \in rows : r.price >= lo /\ r.price <= hi}

\* Line 169: head(top_n) of the rows, which the query ordered by price,
\* highest first.
HeadRows(rows, n) ==
    {r \in rows : Cardinality({x \in rows : x.price > r.price}) < n}

MSG_NO_BRANDS   == "error: No brands found."
MSG_NO_PRODUCT  == "warning: No data available."
MSG_NO_MATCH    == "warning: No products match the search criteria."

NoProd == [pc |-> "idle", n |-> 0, data |-> {}, brand |-> "",
           top |-> <<>>, topRows |-> {}, avg |-> <<>>, rows |-> {},
           searched |-> FALSE, search |-> <<>>, found |-> {},
           listed |-> {}, shown |-> {}]

ProdInit == prod = NoProd

\* The menu selects the product view; data is what the tables hold.
ProductStart(data) ==
    /\ prod.pc = "idle"
    /\ prod.n < MaxPasses
    /\ data \in SUBSET ProductRows
    /\ prod' = [NoProd EXCEPT !.pc = "brands", !.n = prod.n + 1,
                              !.data = data]

\* Lines 64-73: the brand lookup and the selectbox; without brands the view
\* reports it and stops.
ProductBrands(ok, brand) ==
    /\ prod.pc = "brands"
    /\ IF ok /\ prod.data # {}
       THEN /\ brand \in {"All"} \cup {r.brand : r \in prod.data}
            /\ prod' = [prod EXCEPT !.pc = "top", !.brand = brand]
       ELSE /\ brand = "All"
            /\ prod' = [prod EXCEPT !.pc = "idle",
                                    !.shown = @ \cup {MSG_NO_BRANDS}]

\* Lines 76-118: the top ten by quantity sold.
ProductTop(ok) ==
    /\ prod.pc = "top"
    /\ LET q == TopProductsQuery(prod.brand)
           rs == IF ok THEN Rows(prod.data, q) ELSE {} IN
       prod' = [prod EXCEPT !.pc = "avg", !.top = q, !.topRows = rs,
                            !.shown = IF rs = {} THEN @ \cup {MSG_NO_PRODUCT}
                                      ELSE @ \cup {"chart: top products"}]

\* Lines 122-225: the average price listing with its search box, its price
\* range slider and its display count.
ProductAvg(ok, search, lo, hi, n) ==
    /\ prod.pc = "avg"
    /\ LET q == AvgPriceQuery(prod.brand)
           rs == IF ok THEN Rows(prod.data, q) ELSE {} IN
       IF rs = {}
       THEN /\ search = <<>> /\ lo = 0 /\ hi = 0 /\ n = 15
            /\ prod' = [prod EXCEPT !.pc = "rest", !.avg = q,
                                    !.shown = @ \cup {MSG_NO_PRODUCT}]
       ELSE /\ search \in SearchTerms
            /\ lo \in {r.price : r \in rs}
            /\ hi \in {r.price : r \in rs}
            /\ lo <= hi
            /\ n \in DisplayCounts
            /\ LET found == {r \in rs : Contains(r.title, search)}
                   kept == InRange(found, lo, hi) IN
               prod' = [prod EXCEPT !.pc = "rest", !.avg = q, !.rows = rs,
                                    !.searched = TRUE, !.search = search,
                                    !.found = found,
                                    !.listed = HeadRows(kept, n),
                                    !.shown = IF kept = {}
                                              THEN @ \cup {MSG_NO_MATCH}
                                              ELSE @ \cup {"chart: prices"}]

\* Lines 228-616: availability and reviews, with the same brand condition.
ProductRest ==
    /\ prod.pc = "rest"
    /\ prod' = [prod EXCEPT !.pc = "idle",
                            !.shown = @ \cup {"sections: availability, reviews"}]

ProductNext ==
    \/ \E data \in SUBSET ProductRows : ProductStart(data)
    \/ \E ok \in BOOLEAN, brand \in {"All", "B1", "B2"} :
          ProductBrands(ok, brand)
    \/ \E ok \in BOOLEAN : ProductTop(ok)
    \/ \E ok \in BOOLEAN, search \in SearchTerms, lo \in {0, 10, 20, 30},
          hi \in {0, 10, 20, 30}, n \in DisplayCounts :
          ProductAvg(ok, search, lo, hi, n)
    \/ ProductRest

(***************************************************************************)
(* The main query of the sales view at the warehouse (SpecFilter)          *)
(***************************************************************************)
\* Python None; the driver binds it as SQL NULL, and a NULL of a column
\* reaches Python as None.
PyNone == "NULL"

\* Rows that Sales joined with Products and Third_Party_Merchants may hold.
SalesRows ==
    {[brand |-> "B1", category |-> "C1", subcategory |-> "SC1",
      merchant |-> "M1", date |-> "2024-06-01"],
     [brand |-> "B2", category |-> "C2", subcategory |-> "SC2",
      merchant |-> "M2", date |-> "2024-06-01"],
     [brand |-> PyNone, category |-> "C1", subcategory |-> "SC1",
      merchant |-> "M1", date |-> "2024-06-01"],
     [brand |-> "B1", category |-> "C1", subcategory |-> "SC1",
      merchant |-> "M1", date |-> "2022-06-01"]}

\* The order of the dates in use.
DateRank(d) ==
    CASE d = "2022-06-01" -> 1 [] d = "2023-01-01" -> 2
      [] d = "2024-06-01" -> 3 [] d = "2025-12-31" -> 4

\* (%s IS NULL OR column = %s) on a column value v: an equality with a NULL
\* on either side is not true.
DimensionKeeps(a, b, v) ==
    a = "NULL" \/ (b # "NULL" /\ v # "NULL" /\ v = b)

\* The WHERE clause of the query on row r, with the parameters ps bound.
WhereKeeps(ps, r) ==
    /\ DateRank(ps[1]) <= DateRank(r.date)
    /\ DateRank(r.date) <= DateRank(ps[2])
    /\ DimensionKeeps(ps[3], ps[4], r.brand)
    /\ DimensionKeeps(ps[5], ps[6], r.category)
    /\ DimensionKeeps(ps[7], ps[8], r.subcategory)
    /\ DimensionKeeps(ps[9], ps[10], r.merchant)

NoFq == [pc |-> "idle", n |-> 0, data |-> {}, sel |-> NoSel, text |-> <<>>,
         params |-> <<>>, kept |-> {}]

FqInit == fq = NoFq

\* The sales view is opened; data is what the tables hold.
FilterStart(data) ==
    /\ fq.pc = "idle"
    /\ fq.n < MaxQueries
    /\ data \in SUBSET SalesRows
    /\ fq' = [NoFq EXCEPT !.pc = "select", !.n = fq.n + 1, !.data = data]

\* Lines 67-155: the selections, a valid date range, the query text and
\* the parameter tuple. The brand options are "All" and the distinct BRAND
\* values the lookup returned.
FilterSelect(brand, cat, sub, merch, dates) ==
    /\ fq.pc = "select"
    /\ brand \in {"All"} \cup {r.brand : r \in fq.data}
    /\ cat \in {"All", "C1"}
    /\ sub \in {"All", "SC1"}
    /\ merch \in {"All", "M1"}
    /\ dates \in {d \in DateInputs :
                     TwoBounds(d) /\ DateOrd(d[1]) <= DateOrd(d[2])}
    /\ LET s == [NoSel EXCEPT !.brand = brand, !.category = cat,
                              !.subcategory = sub, !.merchant = merch,
                              !.dates = dates, !.read = TRUE] IN
       fq' = [fq EXCEPT !.pc = "execute", !.sel = s, !.text = Q_SALES,
                        !.params = SalesParams(s)]

\* Lines 159-164: cur.execute(query, params) at the warehouse.
FilterExecute ==
    /\ fq.pc = "execute"
    /\ fq' = [fq EXCEPT !.pc = "idle",
                        !.kept = {r \in fq.data : WhereKeeps(fq.params, r)}]

FilterNext ==
    \/ \E data \in SUBSET SalesRows : FilterStart(data)
    \/ \E brand \in {"All", "B1", "B2", PyNone}, cat \in {"All", "C1"},
          sub \in {"All", "SC1"}, merch \in {"All", "M1"},
          dates \in DateInputs : FilterSelect(brand, cat, sub, merch, dates)
    \/ FilterExecute

Init == CacheInit /\ ChatInit /\ ViewInit /\ ExecInit /\ ConnInit /\ ProdInit
        /\ FqInit

(***************************************************************************)
(* SpecRecover: the executors called while the warehouse is unreachable    *)
(* and after it has become reachable again                                 *)
(***************************************************************************)
\* One executor for each value returned from the except branch: None,
\* an empty list, and the pair (None, None).
FailingExecutors == {"benchmarking.run_query", "sales.run_query",
                     "sales.fetch_results"}
RecoverSteps == {1, 3599, TTL_SECONDS}

\* The warehouse is unreachable when the process starts.
RecoverInit ==
    /\ CacheInit /\ ChatInit /\ ExecInit /\ ConnInit /\ ProdInit /\ FqInit
    /\ view = "none" /\ vpc = "idle" /\ runs = 0 /\ sel = NoSel
    /\ issued = {} /\ asked = <<>> /\ shown = {} /\ lookups = NoLookups
    /\ wh = "down" /\ flips = 0
    /\ tables = "filled"

\* A call whose execution, if any, meets the warehouse as it is now.
CallNow(e, q, p) ==
    /\ Call(e, q, p, Driver(FALSE, TRUE))
    /\ UNCHANGED viewVars

\* d seconds later the warehouse is reachable again.
WarehouseRecovers(d) ==
    /\ wh = "down"
    /\ flips < MaxFlips
    /\ flips' = flips + 1
    /\ wh' = "up"
    /\ now' = now + d
    /\ UNCHANGED <<cache, ticks, calls, last, prev>>
    /\ UNCHANGED <<asked, view, vpc, runs, sel, issued, shown, lookups, tables>>

RecoverNext ==
    \/ \E e \in FailingExecutors :
         \E q \in QueriesOf(e), p \in ParamsOf(e) : CallNow(e, q, p)
    \/ \E d \in RecoverSteps : WarehouseRecovers(d)

\* The tables may as well hold nothing when the first page is opened.
ViewsInit ==
    /\ CacheInit /\ ChatInit /\ ExecInit /\ ConnInit /\ ProdInit /\ FqInit
    /\ view = "none" /\ vpc = "idle" /\ runs = 0 /\ sel = NoSel
    /\ issued = {} /\ asked = <<>> /\ shown = {} /\ lookups = NoLookups
    /\ wh = "up" /\ flips = 0
    /\ tables \in {"filled", "empty"}

SpecCache == Init /\ [][CacheNext /\ UNCHANGED <<chatVars, viewVars, execVars,
                                                 connVars,
        prodVars, fqVars>>]_vars
SpecSessions == Init /\ [][SessionsNext /\ UNCHANGED <<chatVars, viewVars,
                                                       execVars, connVars,
        prodVars, fqVars>>]_vars
SpecRecover == RecoverInit /\ [][RecoverNext /\ UNCHANGED <<chatVars, execVars,
                                                          connVars, prodVars,
                                                          fqVars>>]_vars
SpecExec  == Init /\ [][ExecNext /\ UNCHANGED <<cacheVars, chatVars, viewVars,
                                                connVars,
        prodVars, fqVars>>]_vars
SpecConn  == Init /\ [][ConnNext /\ UNCHANGED <<cacheVars, chatVars, viewVars,
                                                execVars,
        prodVars, fqVars>>]_vars

(***************************************************************************)
(* Properties of the cached executors (SpecCache)                          *)
(***************************************************************************)
SameRequest(a, b) == a.e = b.e /\ a.q = b.q /\ a.p = b.p
\* The entry the call found was younger than the ttl of its executor.
FoundUnexpired(c) ==
    c.had /\ (Ttl(c.e) = NoTTL \/ c.at - c.was < Ttl(c.e))
FoundOverdue(c) ==
    c.had /\ Ttl(c.e) > 0 /\ c.at - c.was > Ttl(c.e)

\* C1: a call that finds an unexpired entry for its fingerprint returns the
\* stored result and does not execute the query; of two successive calls
\* with the same fingerprint, the first of which executed the query and the
\* second of which came before expiry, only the first executed it.
C1_SecondCallIsAHit ==
    /\ calls >= 1 /\ FoundUnexpired(last) =>
          last.executed = 0 /\ last.result = last.held
    /\ calls >= 2 /\ SameRequest(prev, last) /\ prev.executed = 1
          /\ FoundUnexpired(last) =>
          /\ prev.executed + last.executed = 1
          /\ last.result = prev.result

C1_Witness ==
    /\ calls >= 2 /\ SameRequest(prev, last)
    /\ prev.executed = 1 /\ last.executed = 0
    /\ last.e = "product.run_query"
    /\ last.result.status = "rows"
    /\ last.at - last.was = 3599

\* C2: a call to an executor with a positive ttl made more than ttl seconds
\* after the entry was created executes the query again, returns the new
\* result and stores it with the time of the call.
C2_OverdueEntryIsRecomputed ==
    calls >= 1 /\ FoundOverdue(last) =>
        /\ last.executed = 1
        /\ last.result.at = last.at
        /\ last.result # last.held
        /\ last.stored = last.at

C2_Witness ==
    /\ calls >= 2 /\ FoundOverdue(last)
    /\ last.e = "benchmarking.run_query"
    /\ SameRequest(prev, last)
    /\ last.executed = 1

\* C3: what a call returns was produced by executing the text and the
\* parameters of that call, also when another text of the same logical query
\* has an entry.
C3_ResultIsOfTheRequest ==
    calls >= 1 => last.result.q = last.q /\ last.result.p = last.p

C3_Witness ==
    /\ calls >= 2 /\ prev.e = last.e
    /\ prev.q # last.q /\ Logical(prev.q) = Logical(last.q)
    /\ prev.result.status = "rows" /\ last.result.status = "rows"
    /\ prev.result # last.result
SpecProduct == Init /\ [][ProductNext /\ UNCHANGED <<cacheVars, chatVars, viewVars,
                                                     execVars, connVars, fqVars>>]_vars
SpecFilter == Init /\ [][FilterNext /\ UNCHANGED <<cacheVars, chatVars, viewVars,
                                                   execVars, connVars, prodVars>>]_vars
SpecChat  == Init /\ [][ChatNext /\ UNCHANGED <<cacheVars, viewVars, execVars,
                                                connVars,
        prodVars, fqVars>>]_vars
SpecViews == ViewsInit /\ [][ViewNext /\ UNCHANGED <<chatVars, execVars,
                                                     connVars,
        prodVars, fqVars>>]_vars

(***************************************************************************)
(* Properties of the chat view (SpecChat)                                  *)
(***************************************************************************)
IsPrefix(a, b) == Len(a) <= Len(b) /\ \A i \in 1..Len(a) : a[i] = b[i]

\* The blocks of a transcript, Turn by Turn and block by block.
BlocksOf(msgs, t) ==
    [b \in 1..Len(msgs[t].content) |->
        [turn |-> t, block |-> b, role |-> msgs[t].role,
         item |-> msgs[t].content[b]]]
RECURSIVE Flatten(_, _)
Flatten(msgs, n) ==
    IF n = 0 THEN <<>> ELSE Flatten(msgs, n - 1) \o BlocksOf(msgs, n)
AllBlocks(msgs) == Flatten(msgs, Len(msgs))

Strip(r) ==
    [i \in 1..Len(r) |-> [turn |-> r[i].turn, block |-> r[i].block,
                          role |-> r[i].role, item |-> r[i].item]]

UserTurnOf(prompt) ==
    [role |-> "user",
     content |-> <<[type |-> "text", text |-> prompt, statement |-> ""]>>]

AgentFailed == resp.transport \/ resp.status >= 400
AgentAnswered == ~resp.transport /\ resp.wellformed /\ resp.status < 400

\* C4: when the agent call returned status >= 400 or failed in transport,
\* the transcript is the transcript before the submission plus the one user
\* Turn, and the script run has ended.
C4_FailureKeepsOnlyUserTurn ==
    AgentFailed =>
        /\ pc = "failed"
        /\ messages = base.msgs \o <<UserTurnOf(base.prompt)>>

C4_Witness ==
    /\ pc = "failed" /\ resp.status >= 400
    /\ Len(base.msgs) >= 2
    /\ messages[Len(messages)].role = "user"

\* C5: while the agent call is about to be issued or outstanding the
\* transcript already ends with the user Turn of the prompt; once the agent
\* has answered with status < 400 and a content-block list, the transcript is
\* that plus one assistant Turn holding the list in the response's order.
C5_UserTurnThenAssistantTurn ==
    /\ (pc \in {"send", "awaiting"} \/ outstanding > 0) =>
          /\ messages = base.msgs \o <<UserTurnOf(base.prompt)>>
          /\ base.prompt \in {SUGGESTIONS[i] : i \in 1..Len(SUGGESTIONS)}
                               \cup TypedPrompts
    /\ pc = "send" => passAgent = 0
    /\ AgentAnswered =>
          messages = base.msgs \o
              <<UserTurnOf(base.prompt),
                [role |-> "assistant", content |-> resp.content]>>

C5_Witness ==
    /\ AgentAnswered /\ resp.status = 399
    /\ Len(resp.content) = 2 /\ resp.content[1].type = "sql"
    /\ base.prompt \in TypedPrompts
    /\ Len(base.msgs) >= 2

\* A step that accepts a submission: the transcript gains a user Turn.
IsSubmission ==
    /\ Len(messages') = Len(messages) + 1
    /\ messages'[Len(messages')].role = "user"

\* C6: at most one agent call is outstanding, exactly while the run waits in
\* process_message; a submission is accepted only when no call is
\* outstanding and the history loop of this run has drawn the whole
\* transcript; the answer ends the turn.
C6_OneTurnAtATime ==
    /\ [](outstanding \in {0, 1} /\ (outstanding = 1 <=> pc = "awaiting"))
    /\ [][IsSubmission =>
            /\ outstanding = 0 /\ pc \notin {"send", "awaiting"}
            /\ Strip(rendered) = AllBlocks(messages)]_vars
    /\ [][pc = "awaiting" /\ pc' # "awaiting" =>
            outstanding' = 0 /\ pc' \in {"failed", "connect"}]_vars

C6_Witness ==
    /\ pc = "awaiting" /\ outstanding = 1
    /\ Len(base.msgs) >= 2 /\ Len(rendered) >= 2

\* C7: in the script run of a Clear Chat click and in the rerun it triggers,
\* no warehouse statement and no agent call is issued, and from the click on
\* the transcript is empty.
C7_ClearIssuesNothing ==
    /\ event.kind = "clear" /\ pc \notin Resting =>
          passWh = 0 /\ passAgent = 0 /\ outstanding = 0
    /\ afterClear =>
          /\ messages = <<>>
          /\ passWh = 0 /\ passAgent = 0 /\ outstanding = 0

C7_Witness ==
    /\ afterClear /\ pc = "done"
    /\ \E t \in 1..Len(base.msgs) :
         \E b \in 1..Len(base.msgs[t].content) :
            base.msgs[t].content[b].type = "sql"

\* C8: every step other than the Clear Chat click leaves the transcript a
\* prefix of the transcript after it.
C8_AppendOnly ==
    [][(pc = "clear" /\ event.kind = "clear") \/ IsPrefix(messages, messages')]_vars

C8_Witness ==
    /\ Len(messages) >= 4
    /\ messages[1].role = "user" /\ messages[2].role = "user"
    /\ messages[4].role = "assistant"

\* C9: what the history loop has drawn is at every moment the first blocks
\* of the transcript in transcript order, and when the loop is over it is
\* all of them.
C9_RenderInOrder ==
    /\ IsPrefix(Strip(rendered), AllBlocks(messages))
    /\ pc \in {"input", "done"} => Strip(rendered) = AllBlocks(messages)

C9_Witness ==
    /\ pc = "done" /\ Len(rendered) >= 4
    /\ \E i \in 1..Len(rendered) : rendered[i].block = 2

(***************************************************************************)
(* Properties of the filter views (SpecViews)                              *)
(***************************************************************************)
\* The call sites whose statement takes the two date bounds.
DatedSites == {"sales_main", "top_products", "competitor_pricing"}
FewerThanTwoBounds == sel.read /\ Len(sel.dates) < 2
DatePrompted == MSG_DATES \in shown \/ MSG_ADJUST \in shown

\* C10 as stated: with fewer than two date bounds, no query reaches the
\* warehouse in the script run and the prompt is rendered.
C10_NoQueryAtAll ==
    FewerThanTwoBounds => issued = {} /\ DatePrompted

\* C10 as amended: with fewer than two date bounds, no query that takes the
\* date bounds reaches the warehouse in the script run; the sales view shows
\* its date error and stops, the competitor-pricing section shows the
\* adjust-the-filters prompt and no chart.
C10_NoDatedQuery ==
    FewerThanTwoBounds =>
        /\ issued \cap DatedSites = {}
        /\ view = "sales" => MSG_DATES \in shown /\ vpc = "idle"
        /\ view = "benchmarking" =>
              /\ MSG_ADJUST \in shown
              /\ "chart: competitor pricing" \notin shown
              /\ MSG_NO_COMP \notin shown

C10_Witness ==
    /\ FewerThanTwoBounds /\ Len(sel.dates) = 1
    /\ view = "benchmarking" /\ vpc = "idle"
    /\ sel.stores # <<>>
    /\ "stores" \in issued /\ "customer_segmentation" \in issued

\* The store names among the tokens of a query text.
StoresIn(q) == {q[i] : i \in 1..Len(q)} \cap STORES

\* C11: once the competitor-pricing section has read its filters, it has
\* passed a query to the executor exactly when the date range has two bounds
\* and at least one store is selected; it is then one query, naming the
\* selected stores and ending in the two bounds. Otherwise no query is
\* passed, none reaches the warehouse, and the prompt to adjust the filters
\* is shown.
C11_CompetitorQueryIffValid ==
    /\ (vpc = "b_competitor" \/ ~sel.read) => asked = <<>>
    /\ (view = "benchmarking" /\ sel.read) =>
          IF Len(sel.dates) = 2 /\ sel.stores # <<>>
          THEN /\ Len(asked) = 1
               /\ StoresIn(asked[1]) = {sel.stores[i] : i \in 1..Len(sel.stores)}
               /\ SubSeq(asked[1], Len(asked[1]) - 1, Len(asked[1])) = sel.dates
               /\ MSG_ADJUST \notin shown
          ELSE /\ asked = <<>>
               /\ "competitor_pricing" \notin issued
               /\ MSG_ADJUST \in shown

\* A run that selected two stores and two dates and whose query reached the
\* warehouse.
C11_Witness ==
    /\ view = "benchmarking"
    /\ sel.read
    /\ Len(sel.dates) = 2
    /\ Len(sel.stores) = 2
    /\ Len(asked) = 1
    /\ "competitor_pricing" \in issued

\* C12: whichever driver call of an executor raises (opening the cursor,
\* executing the statement, reading the description, fetching the rows), no
\* exception leaves the executor; the call ends with the executor's error
\* message shown and with its failure value (None, or the empty list of
\* sales.run_query) returned.
C12_ExceptionsStayInside ==
    /\ ~exec.escaped
    /\ (exec.pc = "idle" /\ exec.stage # "") =>
          /\ exec.msg \in {"Error executing query", "Error fetching results",
                           "Error fetching top-performing products"}
          /\ exec.ret.raised
          /\ exec.ret.status \in {"none", "empty"}
          /\ exec.ret.q = exec.q

\* conn.cursor() itself raised, and the call returned None with the message.
C12_Witness ==
    /\ exec.pc = "idle"
    /\ exec.stage = "cursor"
    /\ exec.msg = "Error executing query"
    /\ exec.ret.status = "none"

\* C13: a script run never uses an absent (None) result as a table: when a
\* lookup of the benchmarking view returned None, or the customer
\* segmentation query did, no TypeError ends the run.
C13_AbsentResultNeverUsedAsTable ==
    view = "benchmarking" => "exception: TypeError" \notin shown

\* The connections that modules and sessions hold.
Handles ==
    ({modconn[i] : i \in 1..Len(FilterModules)} \cup
     {sessconn[s] : s \in Sessions}) \ {0}

\* C14: the process has one warehouse connection: it is constructed at most
\* once, and every module and every session that holds a connection holds
\* that same one.
C14_OneConnectionForAll ==
    /\ made <= 1
    /\ Cardinality(Handles) <= 1

\* C15: in a script run in which establishing a connection failed, the
\* error was displayed, the run is halted, no statement of the page was
\* issued, and no connect() and no statement came after the failure.
C15_FailedConnectHalts ==
    run.failed =>
        /\ MSG_CONNECT \in run.shown
        /\ run.pc = "halted"
        /\ run.queries = 0
        /\ run.after = 0

\* The chat view failed to connect after the imports had connected.
C15_Witness ==
    /\ run.failed
    /\ run.page = "Chat with Agent"
    /\ run.mod = 0
    /\ run.pc = "halted"
    /\ made >= 3

\* C16: the cache is scoped to the session: when one session has stored the
\* result of a request, the same request of another session executes its
\* query again and is not handed the stored result.
C16_SessionScopedCache ==
    (calls >= 2 /\ prev.by # last.by /\ SameRequest(prev, last)) =>
        /\ last.executed = 1
        /\ last.result.at = last.at

\* The number of sql blocks among the blocks bs.
SqlCount(bs) == Cardinality({i \in 1..Len(bs) : bs[i].item.type = "sql"})

SqlViews == {rendered[i].view : i \in {j \in 1..Len(rendered) :
                                         rendered[j].item.type = "sql"}}
OneFlatTable(v) == v.kind = "dataframe" /\ v.tabs = <<>>
ThreeTabs(v) ==
    /\ v.kind = "tabs"
    /\ v.tabs = <<"Data", "Line Chart", "Bar Chart">>
AllTabsFilled(v) == v.filled = {v.tabs[i] : i \in 1..Len(v.tabs)}

\* C18 as stated: one row gives one flat table; several rows and several
\* columns give the three tabs, the charts on the first column; every other
\* shape gives one of these two renderings, with no tab left empty.
C18_NoEmptyTab ==
    \A v \in SqlViews :
        /\ v.rows = 1 => OneFlatTable(v)
        /\ (v.rows > 1 /\ v.cols > 1) =>
              ThreeTabs(v) /\ AllTabsFilled(v) /\ v.index = 1
        /\ (v.rows = 0 \/ (v.rows > 1 /\ v.cols = 1)) =>
              /\ OneFlatTable(v) \/ (ThreeTabs(v) /\ v.index = 1)
              /\ AllTabsFilled(v)

\* C18, amended: no row or one row gives one flat table; several rows give
\* the three tabs: with several columns all three are filled and the charts
\* use the first column as their category axis, with one column only the
\* data tab is filled and the two chart tabs stay empty.
C18_ViewByShape ==
    \A v \in SqlViews :
        /\ v.rows <= 1 => OneFlatTable(v)
        /\ (v.rows > 1 /\ v.cols > 1) =>
              ThreeTabs(v) /\ AllTabsFilled(v) /\ v.index = 1
        /\ (v.rows > 1 /\ v.cols = 1) =>
              ThreeTabs(v) /\ v.filled = {"Data"} /\ v.index = 0

\* The history loop has drawn a frame of two rows and one column, and one of
\* no rows.
C18_Witness ==
    /\ \E v \in SqlViews : v.rows = 2 /\ v.cols = 1
    /\ \E v \in SqlViews : v.rows = 0

\* The script run was ended by an exception that left cortext_analyst():
\* the one send_message raised ("failed") or the one pd.read_sql raised
\* ("crashed").
EndedByException == pc \in {"failed", "crashed"}

\* C19: when the agent request has failed, the exception of send_message has
\* not left the chat page, and the page has drawn its chat input and takes
\* the next submission.
C19_AgentFailureIsCaught ==
    AgentFailed => (~EndedByException /\ "input" \in widgets)

\* C20: what an executor returns for a failed execution is None and is
\* never the value it returns for a query that ran and found no rows: of two
\* calls of one executor, one failed and one successful, the results differ.
C20_FailureIsNotAnEmptyResult ==
    /\ (calls >= 1 /\ last.result.raised) => last.result.status = "none"
    /\ (calls >= 2 /\ prev.e = last.e
          /\ prev.result.raised # last.result.raised) =>
          prev.result.status # last.result.status

\* The executors of the sales view, all declared with a bare @st.cache_data.
SalesExecutors == {"sales.run_query", "sales.fetch_results",
                   "sales.fetch_top_products"}

\* C21: a call to an executor of the sales view that finds an entry under
\* its fingerprint returns that entry, whatever its age, does not execute
\* the query, and leaves the entry as it was stored.
C21_NoTtlEntryServedForever ==
    (calls >= 1 /\ last.e \in SalesExecutors /\ last.had) =>
        /\ last.executed = 0
        /\ last.result = last.held
        /\ last.stored = last.was

\* An entry of fetch_results served when it was at least an hour old.
C21_Witness ==
    /\ calls >= 2
    /\ last.e = "sales.fetch_results"
    /\ SameRequest(prev, last)
    /\ prev.executed = 1
    /\ last.executed = 0
    /\ last.at - last.was >= 3600

\* C22: with the brand filter "All" and an empty search text, the top-ten
\* query carries no brand condition and returns every product, and every
\* row the average-price query returned is still there after the title
\* search.
C22_AllAndEmptySearchExcludeNothing ==
    /\ (prod.brand = "All" /\ prod.top # <<>>) =>
          ~HasBrandCondition(prod.top)
    /\ (prod.brand = "All" /\ prod.searched /\ prod.search = <<>>) =>
          /\ ~HasBrandCondition(prod.avg)
          /\ prod.rows = prod.data
          /\ prod.found = prod.rows

\* C23: between executor calls no cursor is open: a call that has returned,
\* with a result or after a caught driver error at any stage, has released
\* the cursor it opened; a call in progress holds at most one.
C23_NoCursorLeftOpen ==
    /\ exec.pc = "idle" => exec.cursors = 0
    /\ exec.cursors <= 1
    /\ exec.pc \in {"execute", "description", "fetch"} => exec.cursors = 1

\* fetchall() raised while the cursor was open, and the call has returned.
C23_Witness ==
    /\ exec.pc = "idle"
    /\ exec.stage = "fetch"
    /\ exec.ret.raised
    /\ exec.cursors = 0

\* The sales query has been executed with the current selection.
FqDone == fq.pc = "idle" /\ fq.n >= 1 /\ fq.sel.read
\* Row r lies within the selected dates.
InDates(r) ==
    /\ DateRank(fq.sel.dates[1]) <= DateRank(r.date)
    /\ DateRank(r.date) <= DateRank(fq.sel.dates[2])
\* The text is the one constant, and the bounds are the first two
\* parameters.
ConstantTextAndBounds ==
    /\ fq.text = <<"SELECT ... SUM(s.TOTAL_SALE_AMOUNT) AS TOTAL_SALES">>
    /\ Len(fq.params) = 10
    /\ <<fq.params[1], fq.params[2]>> = fq.sel.dates

\* C24 as stated: the text is constant; "All" is bound as NULL twice and
\* keeps every row; any other selection is bound as itself and keeps
\* exactly the rows equal to it.
C24_OnlyAllKeepsEveryRow ==
    FqDone =>
        /\ ConstantTextAndBounds
        /\ fq.kept =
             {r \in fq.data :
                /\ InDates(r)
                /\ fq.sel.brand = "All" \/ r.brand = fq.sel.brand
                /\ fq.sel.category = "All" \/ r.category = fq.sel.category
                /\ fq.sel.subcategory = "All"
                      \/ r.subcategory = fq.sel.subcategory
                /\ fq.sel.merchant = "All" \/ r.merchant = fq.sel.merchant}

\* The selection of a dimension is bound as NULL.
BoundAsNull(selected) == selected \in {"All", "NULL"}

\* C24, amended: the text is constant and the selections reach the
\* warehouse in the parameter tuple only; a selection of "All", and the
\* None option the brand list has when a BRAND is NULL, is bound as NULL
\* twice and keeps every row; any other selection is bound as itself twice
\* and keeps exactly the rows equal to it.
C24_NullBoundKeepsEveryRow ==
    FqDone =>
        /\ ConstantTextAndBounds
        /\ \A i \in {3, 5, 7, 9} : fq.params[i] = fq.params[i + 1]
        /\ fq.params[3] =
             (IF BoundAsNull(fq.sel.brand) THEN "NULL" ELSE fq.sel.brand)
        /\ fq.params[5] =
             (IF BoundAsNull(fq.sel.category) THEN "NULL"
              ELSE fq.sel.category)
        /\ fq.params[7] =
             (IF BoundAsNull(fq.sel.subcategory) THEN "NULL"
              ELSE fq.sel.subcategory)
        /\ fq.params[9] =
             (IF BoundAsNull(fq.sel.merchant) THEN "NULL"
              ELSE fq.sel.merchant)
        /\ fq.kept =
             {r \in fq.data :
                /\ InDates(r)
                /\ BoundAsNull(fq.sel.brand) \/ r.brand = fq.sel.brand
                /\ BoundAsNull(fq.sel.category)
                      \/ r.category = fq.sel.category
                /\ BoundAsNull(fq.sel.subcategory)
                      \/ r.subcategory = fq.sel.subcategory
                /\ BoundAsNull(fq.sel.merchant)
                      \/ r.merchant = fq.sel.merchant}

\* Every row is held; brand "All" with merchant M1 kept the rows of M1
\* within the dates, also the one whose brand is NULL.
C24_Witness ==
    /\ FqDone
    /\ fq.data = SalesRows
    /\ fq.sel.brand = "All"
    /\ fq.sel.merchant = "M1"
    /\ Cardinality(fq.kept) = 2

(***************************************************************************)
(* Properties of failed executions in the cache (SpecRecover)              *)
(***************************************************************************)
\* The value each executor returns from its except branch.
AbsentResult(c) ==
    /\ c.result.raised
    /\ c.result.status = IF c.e = "sales.run_query" THEN "empty" ELSE "none"
\* The entry the call found was created less than the ttl ago, or belongs
\* to an executor of the sales view, which has no ttl.
FoundBeforeExpiry(c) ==
    c.had /\ (c.e \in SalesExecutors \/ c.at - c.was < TTL_SECONDS)

\* C25: the absent result of a failed execution is stored under the
\* fingerprint of the query like a successful result, and every further
\* call with the same fingerprint before expiry returns that absent result
\* without executing anything, also when the warehouse is reachable again.
C25_FailureIsCachedLikeSuccess ==
    /\ calls >= 1 /\ last.executed = 1 /\ last.result.raised =>
          /\ AbsentResult(last)
          /\ last.key \in DOMAIN cache
          /\ cache[last.key] = [result |-> last.result, created |-> last.at]
    /\ calls >= 1 /\ FoundBeforeExpiry(last) /\ last.held.raised =>
          /\ last.executed = 0
          /\ last.result = last.held
          /\ AbsentResult(last)
    /\ calls >= 2 /\ SameRequest(prev, last) /\ prev.executed = 1
          /\ prev.result.raised
          /\ (last.e \in SalesExecutors \/ last.at - prev.at < TTL_SECONDS) =>
          /\ last.executed = 0
          /\ last.result = prev.result

\* The warehouse failed the first call, recovered 3599 seconds later, and
\* the second call with the same fingerprint still returned None.
C25_Witness ==
    /\ calls >= 2 /\ SameRequest(prev, last)
    /\ last.e = "benchmarking.run_query"
    /\ prev.executed = 1 /\ prev.result.raised /\ prev.at = 0
    /\ wh = "up" /\ last.at = 3599
    /\ last.executed = 0 /\ last.result.status = "none"

(***************************************************************************)
(* Shape of the transcript (SpecChat)                                      *)
(***************************************************************************)
RolesOf(msgs) == [i \in 1..Len(msgs) |-> msgs[i].role]
CountOf(role, msgs) == Cardinality({i \in 1..Len(msgs) : msgs[i].role = role})

\* C26: in every reachable transcript the first Turn, if any, is a user
\* Turn, every assistant Turn comes right after a user Turn, and there are
\* never more assistant Turns than user Turns.
C26_TranscriptShape ==
    /\ Len(messages) > 0 => messages[1].role = "user"
    /\ \A i \in 1..Len(messages) :
          messages[i].role = "assistant" =>
             i > 1 /\ messages[i - 1].role = "user"
    /\ CountOf("assistant", messages) <= CountOf("user", messages)

\* A failed request left its user Turn behind; the next request succeeded,
\* so two user Turns are adjacent and one assistant Turn follows them.
C26_Witness ==
    /\ RolesOf(messages) = <<"user", "user", "assistant">>
    /\ pc = "done"

(***************************************************************************)
(* A raising sql block in the history (SpecChat)                           *)
(***************************************************************************)
HasSqlBlock(msgs) == SqlCount(AllBlocks(msgs)) > 0
ReachedInput == pc \in {"input", "done"} \/ "input" \in widgets

\* C27 as stated: once the execution of a stored sql block has raised, no
\* render pass reaches the chat input again until Clear Chat is used.
C27_AbortRepeatsUntilClear == aborted => ~ReachedInput

\* C27, amended: a step that executes a statement and draws no block is the
\* end of the script run: the block it stopped at is a sql block, no later
\* block and no chat input is drawn, the Clear button is; the transcript is
\* left as it was, and only Clear ever removes a Turn, so every later pass
\* executes the block again. A pass that gets to the chat input has drawn
\* every block, which it can do with the Turn still there when the
\* execution does not raise again.
C27_AbortLeavesTurnUntilClear ==
    [][/\ (passWh' = passWh + 1 /\ rendered' = rendered) =>
             /\ pc' = "crashed"
             /\ aborted'
             /\ messages' = messages
             /\ Len(rendered') < Len(AllBlocks(messages'))
             /\ AllBlocks(messages')[Len(rendered') + 1].item.type = "sql"
             /\ "input" \notin widgets'
             /\ "clear" \in widgets'
       /\ pc = "crashed" => pc' = "connect" /\ messages' = messages
       /\ ~IsPrefix(messages, messages') =>
             event.kind = "clear" /\ messages' = <<>>
       /\ (aborted /\ ~aborted') => event.kind = "clear" /\ messages' = <<>>
       /\ aborted' => HasSqlBlock(messages')
       /\ pc' = "input" =>
             /\ Strip(rendered') = AllBlocks(messages')
             /\ passWh' = SqlCount(AllBlocks(messages'))
      ]_vars

\* The second of two answers with a sql block raised: the pass ended there,
\* before the Turns after it and before the chat input.
C27_Witness ==
    /\ pc = "crashed" /\ aborted
    /\ Len(messages) = 4
    /\ Len(rendered) + 1 < Len(AllBlocks(messages))
    /\ AllBlocks(messages)[Len(rendered) + 1].turn = 2
    /\ "input" \notin widgets /\ "clear" \in widgets
====
